---- MODULE Spec2Model ----
(***************************************************************************)
(* Model of src/src/gateway/process.ts: findExistingMoltbotProcess and     *)
(* ensureMoltbotGateway, run by several concurrent callers against one     *)
(* sandbox whose process table is the only shared state.                   *)
(*                                                                         *)
(* Every `await` of the source is one step of the caller: the host call    *)
(* it awaits happens atomically in that step and its outcome (a value or   *)
(* a thrown error) is chosen by the host.  Between two awaits a caller     *)
(* runs without interruption (one JavaScript event loop).                  *)
(***************************************************************************)
EXTENDS Naturals, Sequences, FiniteSets

\* ------------------------------------------------------------------ bounds

\* Processes the sandbox's table can hold; startProcess fails once it is full.
MaxProcs == 2

\* ensureMoltbotGateway calls begun in one behaviour, over all callers.
MaxCalls == 2

\* Fragments in a command of the discovery specification's process lists.
MaxCmdLen == 3

\* The concurrent callers (inbound requests) of ensureMoltbotGateway.
Callers == 1..2

\* ---------------------------------------------------------------- commands

\* A command string is the sequence of its fragments; String.includes is
\* containment of the pattern's fragments as a contiguous run.
Includes(command, pattern) ==
    \E i \in 1..(Len(command) + 1 - Len(pattern)) :
        SubSeq(command, i, i + Len(pattern) - 1) = pattern

\* 'bash -c "/usr/local/bin/start-moltbot.sh > /tmp/moltbot-startup.log 2>&1"'
LaunchCommand ==
    <<"bash", "-c", "/usr/local/bin/", "start-moltbot.sh", ">",
      "/tmp/moltbot-startup.log", "2>&1">>

\* 'cat /tmp/moltbot-startup.log'
ReadLogCommand == <<"cat", "/tmp/moltbot-startup.log">>

IsGatewayProcess(command) ==
    \/ Includes(command, <<"start-moltbot.sh">>)
    \/ Includes(command, <<"clawdbot", "gateway">>)

IsCliCommand(command) ==
    \/ Includes(command, <<"clawdbot", "devices">>)
    \/ Includes(command, <<"clawdbot", "--version">>)

IsLiveStatus(status) == status = "starting" \/ status = "running"

\* Matches without the exclusion of CLI commands.
MatchesAnyGateway(proc) ==
    IsGatewayProcess(proc.command) /\ IsLiveStatus(proc.status)

\* The test of the loop body: the process findExistingMoltbotProcess returns.
Matches(proc) ==
    /\ IsGatewayProcess(proc.command) /\ ~IsCliCommand(proc.command)
    /\ IsLiveStatus(proc.status)

\* The for loop of findExistingMoltbotProcess from position i on: the id
\* (position in the list) of the first process it returns, 0 for null.
RECURSIVE FindFrom(_, _)
FindFrom(processes, i) ==
    IF i > Len(processes) THEN 0
    ELSE IF Matches(processes[i]) THEN i
    ELSE FindFrom(processes, i + 1)

\* ------------------------------------------------------------------- state

VARIABLES
    table,            \* the sandbox's process table: what listProcesses returns
    pc,               \* each caller's position in ensureMoltbotGateway
    existingProcess,  \* each caller's existingProcess (its id, 0 for null)
    process,          \* each caller's process (its id, 0 before startProcess)
    readLog,          \* each caller's readLog (its id, 0 before it is started)
    e,                \* the error caught by the catch of lines 108-126
    outcome,          \* what the call returned/threw: [returned, error]
    calls,            \* the host operations the current call has awaited, in order
    ncalls,           \* ensureMoltbotGateway calls begun so far
    mw                \* the request in the access middleware and what became of it

vars == <<table, pc, existingProcess, process, readLog, e, outcome, calls, ncalls, mw>>

NoError == [name |-> "none", message |-> <<>>]

\* What a failing host operation throws: an error of the host, named after
\* the operation and the process it was issued on.
HostError(op, id) == [name |-> op, message |-> <<op, "failed">>, id |-> id]

\* new Error(`Moltbot gateway failed to start. Log: ${fullLog}`)
GatewayFailedError(fullLog) ==
    [name |-> "Error",
     message |-> <<"Moltbot gateway failed", " to start. Log: ", fullLog>>,
     id |-> 0]

\* logErr instanceof Error && logErr.message.startsWith('Moltbot gateway failed')
IsGatewayFailed(err) ==
    /\ err.name = "Error"
    /\ Len(err.message) >= 1
    /\ err.message[1] = "Moltbot gateway failed"

\* FullLog with stderr preferred to stdout.
FullLogStderrFirst(stdout, stderr) ==
    IF stderr # "" THEN stderr
    ELSE IF stdout # "" THEN stdout
    ELSE "(no log output)"

\* logContent.stdout || logContent.stderr || '(no log output)'
FullLog(stdout, stderr) ==
    IF stdout # "" THEN stdout
    ELSE IF stderr # "" THEN stderr
    ELSE "(no log output)"

\* One awaited host operation, as the call saw it.
Ev(op, id, ok, command, stdout, stderr) ==
    [op |-> op, id |-> id, ok |-> ok, command |-> command,
     stdout |-> stdout, stderr |-> stderr]

Record(c, ev) == calls' = [calls EXCEPT ![c] = Append(@, ev)]

NoOutcome == [returned |-> 0, error |-> NoError]

\* What a process's stdout and stderr can hold when getLogs reads them.
Stdouts == {"", "out"}
Stderrs == {"", "err"}

\* A process as the host lists it.
Proc(command, status, port) ==
    [command |-> command, status |-> status, port |-> port]

\* ------------------------------------------------- the access middleware

\* An environment variable, header or cookie that is not there.
Undefined == "undefined"

\* JavaScript truthiness of a string that may be missing.
Truthy(v) == v # Undefined /\ v # ""

isDevMode(env) == env.DEV_MODE = "true"

isE2ETestMode(env) == env.E2E_TEST_MODE = "true"

\* The value of the first cookie of the Cookie header named
\* CF_Authorization; a header is a sequence of <<name, value>> cookies,
\* empty when the request has no Cookie header.
RECURSIVE CookieFrom(_, _)
CookieFrom(cookies, i) ==
    IF i > Len(cookies) THEN Undefined
    ELSE IF cookies[i][1] = "CF_Authorization" THEN cookies[i][2]
    ELSE CookieFrom(cookies, i + 1)

\* extractJWT: jwtHeader || jwtCookie || null
extractJWT(req) ==
    IF Truthy(req.jwtHeader) THEN req.jwtHeader
    ELSE IF Truthy(CookieFrom(req.cookie, 1)) THEN CookieFrom(req.cookie, 1)
    ELSE Undefined

\* teamDomain && expectedAud
AccessConfigured(env) ==
    Truthy(env.CF_ACCESS_TEAM_DOMAIN) /\ Truthy(env.CF_ACCESS_AUD)

\* c.env.BASIC_AUTH_USER && c.env.BASIC_AUTH_PASS
BasicConfigured(env) ==
    Truthy(env.BASIC_AUTH_USER) /\ Truthy(env.BASIC_AUTH_PASS)

ModeValues == {Undefined, "true", "false"}
SettingValues == {Undefined, "", "set"}

Envs ==
    [DEV_MODE : ModeValues, E2E_TEST_MODE : ModeValues,
     CF_ACCESS_TEAM_DOMAIN : SettingValues, CF_ACCESS_AUD : SettingValues,
     BASIC_AUTH_USER : SettingValues, BASIC_AUTH_PASS : SettingValues]

\* The requests the middleware can see: its options, the environment and
\* where the request carries a token, if anywhere.
Requests ==
    [env : Envs,
     type : {"json", "html"},
     redirectOnMissing : BOOLEAN,
     jwtHeader : {Undefined, "jwt"},
     cookie : {<<>>,
               <<<<"CF_Authorization", "jwt">>>>,
               <<<<"session", "x">>, <<"CF_Authorization", "">>>>}]

\* A request the middleware has not handled yet.
Arrived(req) ==
    [req |-> req, pc |-> "start", verify |-> "notcalled", basic |-> "notcalled",
     next |-> FALSE, status |-> 0, accessUser |-> Undefined]

\* No request is in the middleware.
NoRequest == [pc |-> "none"]

\* The middleware has answered: next() was called, or a response with status.
Handled(verify, basic, next, status, accessUser) ==
    mw' = [mw EXCEPT !.pc = "done", !.verify = verify, !.basic = basic,
                     !.next = next, !.status = status, !.accessUser = accessUser]

GatewayUnchanged ==
    UNCHANGED <<table, pc, existingProcess, process, readLog, e, outcome, calls, ncalls>>

\* Dev or E2E test mode: the dev user is set and next() is called.
MwSkipAuth ==
    /\ mw.pc = "start"
    /\ isDevMode(mw.req.env) \/ isE2ETestMode(mw.req.env)
    /\ Handled("notcalled", "notcalled", TRUE, 0, "dev@localhost")
    /\ GatewayUnchanged

\* Cloudflare Access is configured and the request carries no token:
\* redirect for html with redirectOnMissing, 401 otherwise.
MwMissingJwt ==
    /\ mw.pc = "start"
    /\ ~(isDevMode(mw.req.env) \/ isE2ETestMode(mw.req.env))
    /\ AccessConfigured(mw.req.env)
    /\ extractJWT(mw.req) = Undefined
    /\ Handled("notcalled", "notcalled", FALSE,
               IF mw.req.type = "html" /\ mw.req.redirectOnMissing THEN 302 ELSE 401,
               Undefined)
    /\ GatewayUnchanged

\* verifyAccessJWT resolves: the user of the payload is set, next() is called.
MwVerifyOk ==
    /\ mw.pc = "start"
    /\ ~(isDevMode(mw.req.env) \/ isE2ETestMode(mw.req.env))
    /\ AccessConfigured(mw.req.env)
    /\ extractJWT(mw.req) # Undefined
    /\ Handled("ok", "notcalled", TRUE, 0, "payload.email")
    /\ GatewayUnchanged

\* verifyAccessJWT rejects where a bug lets the request fall through to
\* basic auth, which accepts it.
MwVerifyFailFallsThrough ==
    /\ mw.pc = "start"
    /\ ~(isDevMode(mw.req.env) \/ isE2ETestMode(mw.req.env))
    /\ AccessConfigured(mw.req.env)
    /\ extractJWT(mw.req) # Undefined
    /\ IF BasicConfigured(mw.req.env)
       THEN Handled("failed", "accepted", TRUE, 0, "user@basic-auth")
       ELSE Handled("failed", "notcalled", FALSE, 401, Undefined)
    /\ GatewayUnchanged

\* verifyAccessJWT rejects: 401, as json or html.
MwVerifyFail ==
    /\ mw.pc = "start"
    /\ ~(isDevMode(mw.req.env) \/ isE2ETestMode(mw.req.env))
    /\ AccessConfigured(mw.req.env)
    /\ extractJWT(mw.req) # Undefined
    /\ Handled("failed", "notcalled", FALSE, 401, Undefined)
    /\ GatewayUnchanged

\* Basic auth is configured and Cloudflare Access is not: the dummy user is
\* set and basicAuth accepts the credentials and calls next(), or answers 401.
MwBasicAuth ==
    /\ mw.pc = "start"
    /\ ~(isDevMode(mw.req.env) \/ isE2ETestMode(mw.req.env))
    /\ ~AccessConfigured(mw.req.env)
    /\ BasicConfigured(mw.req.env)
    /\ \/ Handled("notcalled", "accepted", TRUE, 0, "user@basic-auth")
       \/ Handled("notcalled", "rejected", FALSE, 401, "user@basic-auth")
    /\ GatewayUnchanged

\* Nothing is configured: 500, as json or html.
MwNotConfigured ==
    /\ mw.pc = "start"
    /\ ~(isDevMode(mw.req.env) \/ isE2ETestMode(mw.req.env))
    /\ ~AccessConfigured(mw.req.env)
    /\ ~BasicConfigured(mw.req.env)
    /\ Handled("notcalled", "notcalled", FALSE, 500, Undefined)
    /\ GatewayUnchanged

\* ------------------------------------------------------------ first states

\* The tables the sandbox can hold when the first request arrives: empty, or
\* one process: the gateway at some point of its life, or a CLI command.
InitTables ==
    {<<>>}
    \cup {<<Proc(LaunchCommand, "starting", FALSE)>>,
          <<Proc(LaunchCommand, "running", FALSE)>>,
          <<Proc(LaunchCommand, "running", TRUE)>>,
          <<Proc(LaunchCommand, "exited", FALSE)>>,
          <<Proc(<<"clawdbot", "devices", "list">>, "running", FALSE)>>}

InitCallers ==
    /\ pc = [c \in Callers |-> "idle"]
    /\ existingProcess = [c \in Callers |-> 0]
    /\ process = [c \in Callers |-> 0]
    /\ readLog = [c \in Callers |-> 0]
    /\ e = [c \in Callers |-> NoError]
    /\ outcome = [c \in Callers |-> NoOutcome]
    /\ calls = [c \in Callers |-> <<>>]
    /\ ncalls = 0

Init ==
    /\ table \in InitTables
    /\ InitCallers
    /\ mw = NoRequest

\* ---------------------------------------------------------------- the host

\* The host moves only the processes discovery can return: no step of the
\* code reads the status or the port of any other process (a CLI command,
\* the cat of the startup log), so their life is left out.
IsService(p) ==
    IsGatewayProcess(table[p].command) /\ ~IsCliCommand(table[p].command)

\* The host reports a starting process as running.
HostRun(p) ==
    /\ IsService(p)
    /\ table[p].status = "starting"
    /\ table' = [table EXCEPT ![p].status = "running"]
    /\ UNCHANGED <<pc, existingProcess, process, readLog, e, outcome, calls, ncalls, mw>>

\* A running gateway starts accepting connections on MOLTBOT_PORT.
HostListen(p) ==
    /\ IsService(p)
    /\ table[p].status = "running"
    /\ ~table[p].port
    /\ table' = [table EXCEPT ![p].port = TRUE]
    /\ UNCHANGED <<pc, existingProcess, process, readLog, e, outcome, calls, ncalls, mw>>

\* A live process ends on its own (completes or crashes).
HostExit(p) ==
    /\ IsService(p)
    /\ IsLiveStatus(table[p].status)
    /\ table' = [table EXCEPT ![p].status = "exited", ![p].port = FALSE]
    /\ UNCHANGED <<pc, existingProcess, process, readLog, e, outcome, calls, ncalls, mw>>

\* sandbox.startProcess(command): the host appends the process and hands it back.
Started(command) == Append(table, Proc(command, "starting", FALSE))

\* ------------------------------------------------- ensureMoltbotGateway

\* A request calls ensureMoltbotGateway; mountR2Storage does not touch the
\* process table.
Call(c) ==
    /\ pc[c] = "idle"
    /\ ncalls < MaxCalls
    /\ ncalls' = ncalls + 1
    /\ pc' = [pc EXCEPT ![c] = "discover"]
    /\ UNCHANGED <<table, existingProcess, process, readLog, e, outcome, calls, mw>>

\* Discover without the try/catch: a listing error reaches the caller.
DiscoverPropagates(c) ==
    /\ pc[c] = "discover"
    /\ \E listed \in BOOLEAN :
        LET found == IF listed THEN FindFrom(table, 1) ELSE 0 IN
        /\ existingProcess' = [existingProcess EXCEPT ![c] = found]
        /\ Record(c, Ev("listProcesses", 0, listed, <<>>, "", ""))
        /\ pc' = [pc EXCEPT ![c] = IF ~listed THEN "failed"
                                   ELSE IF found # 0 THEN "waitExisting" ELSE "start"]
        /\ outcome' = IF listed THEN outcome
                      ELSE [outcome EXCEPT ![c].error = HostError("listProcesses", 0)]
    /\ UNCHANGED <<table, process, readLog, e, ncalls, mw>>

\* findExistingMoltbotProcess: listProcesses throws (caught, null) or
\* returns the table, and the loop picks the first match.
Discover(c) ==
    /\ pc[c] = "discover"
    /\ \E listed \in BOOLEAN :
        LET found == IF listed THEN FindFrom(table, 1) ELSE 0 IN
        /\ existingProcess' = [existingProcess EXCEPT ![c] = found]
        /\ Record(c, Ev("listProcesses", 0, listed, <<>>, "", ""))
        /\ pc' = [pc EXCEPT ![c] = IF found # 0 THEN "waitExisting" ELSE "start"]
    /\ UNCHANGED <<table, process, readLog, e, outcome, ncalls, mw>>

\* WaitExistingOk without the return: the call goes on to start a process.
WaitExistingOkFallsThrough(c) ==
    /\ pc[c] = "waitExisting"
    /\ table[existingProcess[c]].port
    /\ Record(c, Ev("waitForPort", existingProcess[c], TRUE, <<>>, "", ""))
    /\ pc' = [pc EXCEPT ![c] = "start"]
    /\ UNCHANGED <<table, existingProcess, process, readLog, e, outcome, ncalls, mw>>

\* WaitExistingOk that kills the process it returns.
WaitExistingOkKills(c) ==
    /\ pc[c] = "waitExisting"
    /\ table[existingProcess[c]].port
    /\ Record(c, Ev("waitForPort", existingProcess[c], TRUE, <<>>, "", ""))
    /\ table' = [table EXCEPT ![existingProcess[c]].status = "killed",
                              ![existingProcess[c]].port = FALSE]
    /\ outcome' = [outcome EXCEPT ![c].returned = existingProcess[c]]
    /\ pc' = [pc EXCEPT ![c] = "done"]
    /\ UNCHANGED <<existingProcess, process, readLog, e, ncalls, mw>>

\* existingProcess.waitForPort succeeds: return existingProcess.
WaitExistingOk(c) ==
    /\ pc[c] = "waitExisting"
    /\ table[existingProcess[c]].port
    /\ Record(c, Ev("waitForPort", existingProcess[c], TRUE, <<>>, "", ""))
    /\ outcome' = [outcome EXCEPT ![c].returned = existingProcess[c]]
    /\ pc' = [pc EXCEPT ![c] = "done"]
    /\ UNCHANGED <<table, existingProcess, process, readLog, e, ncalls, mw>>

\* waitForPort on the discovered process without a timeout: it never throws.
WaitExistingNeverTimesOut(c) ==
    /\ pc[c] = "waitExisting"
    /\ FALSE
    /\ UNCHANGED vars

\* WaitExistingFail that swallows the timeout and returns the process anyway.
WaitExistingFailReturns(c) ==
    /\ pc[c] = "waitExisting"
    /\ Record(c, Ev("waitForPort", existingProcess[c], FALSE, <<>>, "", ""))
    /\ outcome' = [outcome EXCEPT ![c].returned = existingProcess[c]]
    /\ pc' = [pc EXCEPT ![c] = "done"]
    /\ UNCHANGED <<table, existingProcess, process, readLog, e, ncalls, mw>>

\* existingProcess.waitForPort throws (timeout): go on to kill it.
WaitExistingFail(c) ==
    /\ pc[c] = "waitExisting"
    /\ Record(c, Ev("waitForPort", existingProcess[c], FALSE, <<>>, "", ""))
    /\ pc' = [pc EXCEPT ![c] = "kill"]
    /\ UNCHANGED <<table, existingProcess, process, readLog, e, outcome, ncalls, mw>>

\* Kill without its try/catch: a kill error reaches the caller.
KillPropagates(c) ==
    /\ pc[c] = "kill"
    /\ \E killed \in BOOLEAN :
        /\ table' = IF killed
                    THEN [table EXCEPT ![existingProcess[c]].status = "killed",
                                       ![existingProcess[c]].port = FALSE]
                    ELSE table
        /\ Record(c, Ev("kill", existingProcess[c], killed, <<>>, "", ""))
        /\ pc' = [pc EXCEPT ![c] = IF killed THEN "start" ELSE "failed"]
        /\ outcome' = IF killed THEN outcome
                      ELSE [outcome EXCEPT
                              ![c].error = HostError("kill", existingProcess[c])]
    /\ UNCHANGED <<existingProcess, process, readLog, e, ncalls, mw>>

\* Kill left out: the call starts the new process beside the stale one.
KillNotAttempted(c) ==
    /\ pc[c] = "kill"
    /\ pc' = [pc EXCEPT ![c] = "start"]
    /\ UNCHANGED <<table, existingProcess, process, readLog, e, outcome, calls, ncalls, mw>>

\* existingProcess.kill(): the host kills it, or kill throws (caught, logged).
Kill(c) ==
    /\ pc[c] = "kill"
    /\ \E killed \in BOOLEAN :
        /\ table' = IF killed
                    THEN [table EXCEPT ![existingProcess[c]].status = "killed",
                                       ![existingProcess[c]].port = FALSE]
                    ELSE table
        /\ Record(c, Ev("kill", existingProcess[c], killed, <<>>, "", ""))
    /\ pc' = [pc EXCEPT ![c] = "start"]
    /\ UNCHANGED <<existingProcess, process, readLog, e, outcome, ncalls, mw>>

\* sandbox.startProcess(command, {env}) returns the new process.
StartOk(c) ==
    /\ pc[c] = "start"
    /\ Len(table) < MaxProcs
    /\ table' = Started(LaunchCommand)
    /\ process' = [process EXCEPT ![c] = Len(table) + 1]
    /\ Record(c, Ev("startProcess", Len(table) + 1, TRUE, LaunchCommand, "", ""))
    /\ pc' = [pc EXCEPT ![c] = "waitNew"]
    /\ UNCHANGED <<existingProcess, readLog, e, outcome, ncalls, mw>>

\* StartFail caught like a readiness failure: the call goes on to the log dump.
StartFailDiagnosed(c) ==
    /\ pc[c] = "start"
    /\ Record(c, Ev("startProcess", 0, FALSE, LaunchCommand, "", ""))
    /\ e' = [e EXCEPT ![c] = HostError("startProcess", 0)]
    /\ pc' = [pc EXCEPT ![c] = "readLog"]
    /\ UNCHANGED <<table, existingProcess, process, readLog, outcome, ncalls, mw>>

\* sandbox.startProcess throws: throw startErr.
StartFail(c) ==
    /\ pc[c] = "start"
    /\ Record(c, Ev("startProcess", 0, FALSE, LaunchCommand, "", ""))
    /\ outcome' = [outcome EXCEPT ![c].error = HostError("startProcess", 0)]
    /\ pc' = [pc EXCEPT ![c] = "failed"]
    /\ UNCHANGED <<table, existingProcess, process, readLog, e, ncalls, mw>>

\* process.waitForPort succeeds: go on to process.getLogs().
WaitNewOk(c) ==
    /\ pc[c] = "waitNew"
    /\ table[process[c]].port
    /\ Record(c, Ev("waitForPort", process[c], TRUE, <<>>, "", ""))
    /\ pc' = [pc EXCEPT ![c] = "getLogs"]
    /\ UNCHANGED <<table, existingProcess, process, readLog, e, outcome, ncalls, mw>>

\* WaitNewFail that cleans up: the call kills the process it started.
WaitNewFailKills(c) ==
    /\ pc[c] = "waitNew"
    /\ Record(c, Ev("waitForPort", process[c], FALSE, <<>>, "", ""))
    /\ table' = [table EXCEPT ![process[c]].status = "killed",
                              ![process[c]].port = FALSE]
    /\ e' = [e EXCEPT ![c] = HostError("waitForPort", process[c])]
    /\ pc' = [pc EXCEPT ![c] = "readLog"]
    /\ UNCHANGED <<existingProcess, process, readLog, outcome, ncalls, mw>>

\* WaitNewFail that retries: the call starts the service again.
WaitNewFailRetries(c) ==
    /\ pc[c] = "waitNew"
    /\ Record(c, Ev("waitForPort", process[c], FALSE, <<>>, "", ""))
    /\ pc' = [pc EXCEPT ![c] = "start"]
    /\ UNCHANGED <<table, existingProcess, process, readLog, e, outcome, ncalls, mw>>

\* WaitNewFail that turns to the failed process's own getLogs first.
WaitNewFailReadsLogs(c) ==
    /\ pc[c] = "waitNew"
    /\ Record(c, Ev("waitForPort", process[c], FALSE, <<>>, "", ""))
    /\ e' = [e EXCEPT ![c] = HostError("waitForPort", process[c])]
    /\ pc' = [pc EXCEPT ![c] = "getLogs"]
    /\ UNCHANGED <<table, existingProcess, process, readLog, outcome, ncalls, mw>>

\* process.waitForPort throws: caught as e by the catch of line 108.
WaitNewFail(c) ==
    /\ pc[c] = "waitNew"
    /\ Record(c, Ev("waitForPort", process[c], FALSE, <<>>, "", ""))
    /\ e' = [e EXCEPT ![c] = HostError("waitForPort", process[c])]
    /\ pc' = [pc EXCEPT ![c] = "readLog"]
    /\ UNCHANGED <<table, existingProcess, process, readLog, outcome, ncalls, mw>>

\* process.getLogs() inside the same try: its logs are printed and the
\* process returned, or it throws into the catch of line 108.
GetLogs(c) ==
    /\ pc[c] = "getLogs"
    /\ \/ /\ Record(c, Ev("getLogs", process[c], TRUE, <<>>, "", ""))
          /\ outcome' = [outcome EXCEPT ![c].returned = process[c]]
          /\ pc' = [pc EXCEPT ![c] = "done"]
          /\ UNCHANGED e
       \/ /\ Record(c, Ev("getLogs", process[c], FALSE, <<>>, "", ""))
          /\ e' = [e EXCEPT ![c] = HostError("getLogs", process[c])]
          /\ pc' = [pc EXCEPT ![c] = "readLog"]
          /\ UNCHANGED outcome
    /\ UNCHANGED <<table, existingProcess, process, readLog, ncalls, mw>>

\* sandbox.startProcess('cat /tmp/moltbot-startup.log', {}) returns readLog.
ReadLogOk(c) ==
    /\ pc[c] = "readLog"
    /\ Len(table) < MaxProcs
    /\ table' = Started(ReadLogCommand)
    /\ readLog' = [readLog EXCEPT ![c] = Len(table) + 1]
    /\ Record(c, Ev("startProcess", Len(table) + 1, TRUE, ReadLogCommand, "", ""))
    /\ pc' = [pc EXCEPT ![c] = "settle"]
    /\ UNCHANGED <<existingProcess, process, e, outcome, ncalls, mw>>

\* Rethrown without the test: whatever the inner catch caught is thrown.
RethrownAlways(logErr, caught) == logErr

\* What the catch of lines 119-125 throws for the error logErr it caught.
Rethrown(logErr, caught) == IF IsGatewayFailed(logErr) THEN logErr ELSE caught

\* That startProcess throws: logErr is not the gateway error, throw e.
ReadLogFail(c) ==
    /\ pc[c] = "readLog"
    /\ Record(c, Ev("startProcess", 0, FALSE, ReadLogCommand, "", ""))
    /\ outcome' = [outcome EXCEPT
                     ![c].error = Rethrown(HostError("startProcess", 0), e[c])]
    /\ pc' = [pc EXCEPT ![c] = "failed"]
    /\ UNCHANGED <<table, existingProcess, process, readLog, e, ncalls, mw>>

\* await new Promise(r => setTimeout(r, 3000))
Settle(c) ==
    /\ pc[c] = "settle"
    /\ Record(c, Ev("setTimeout", 0, TRUE, <<>>, "", ""))
    /\ pc' = [pc EXCEPT ![c] = "readLogs"]
    /\ UNCHANGED <<table, existingProcess, process, readLog, e, outcome, ncalls, mw>>

\* readLog.getLogs(): the gateway error with fullLog is thrown and rethrown,
\* or getLogs throws and e is thrown.
ReadLogGetLogs(c) ==
    /\ pc[c] = "readLogs"
    /\ \/ \E stdout \in Stdouts, stderr \in Stderrs :
            /\ Record(c, Ev("getLogs", readLog[c], TRUE, <<>>, stdout, stderr))
            /\ outcome' = [outcome EXCEPT ![c].error =
                    Rethrown(GatewayFailedError(FullLog(stdout, stderr)), e[c])]
       \/ /\ Record(c, Ev("getLogs", readLog[c], FALSE, <<>>, "", ""))
          /\ outcome' = [outcome EXCEPT
                     ![c].error = Rethrown(HostError("getLogs", readLog[c]), e[c])]
    /\ pc' = [pc EXCEPT ![c] = "failed"]
    /\ UNCHANGED <<table, existingProcess, process, readLog, e, ncalls, mw>>

\* The request that called is finished with the outcome and the call's
\* frame is gone; the caller is free to call again.
Return(c) ==
    /\ pc[c] \in {"done", "failed"}
    /\ ncalls < MaxCalls
    /\ pc' = [pc EXCEPT ![c] = "idle"]
    /\ existingProcess' = [existingProcess EXCEPT ![c] = 0]
    /\ process' = [process EXCEPT ![c] = 0]
    /\ readLog' = [readLog EXCEPT ![c] = 0]
    /\ e' = [e EXCEPT ![c] = NoError]
    /\ outcome' = [outcome EXCEPT ![c] = NoOutcome]
    /\ calls' = [calls EXCEPT ![c] = <<>>]
    /\ UNCHANGED <<table, ncalls, mw>>

Next ==
    \/ \E p \in 1..Len(table) : HostRun(p)
    \/ \E p \in 1..Len(table) : HostListen(p)
    \/ \E p \in 1..Len(table) : HostExit(p)
    \/ \E c \in Callers : Call(c)
    \/ \E c \in Callers : Discover(c)
    \/ \E c \in Callers : WaitExistingOk(c)
    \/ \E c \in Callers : WaitExistingFail(c)
    \/ \E c \in Callers : Kill(c)
    \/ \E c \in Callers : StartOk(c)
    \/ \E c \in Callers : StartFail(c)
    \/ \E c \in Callers : WaitNewOk(c)
    \/ \E c \in Callers : WaitNewFail(c)
    \/ \E c \in Callers : GetLogs(c)
    \/ \E c \in Callers : ReadLogOk(c)
    \/ \E c \in Callers : ReadLogFail(c)
    \/ \E c \in Callers : Settle(c)
    \/ \E c \in Callers : ReadLogGetLogs(c)
    \/ \E c \in Callers : Return(c)

Spec == Init /\ [][Next]_vars

\* A call under way takes its next step: the host operation it awaits
\* returns or throws, the readiness wait or the settle delay ends.
CallerStep(c) ==
    \/ Discover(c)
    \/ WaitExistingOk(c)
    \/ WaitExistingFail(c)
    \/ Kill(c)
    \/ StartOk(c)
    \/ StartFail(c)
    \/ WaitNewOk(c)
    \/ WaitNewFail(c)
    \/ GetLogs(c)
    \/ ReadLogOk(c)
    \/ ReadLogFail(c)
    \/ Settle(c)
    \/ ReadLogGetLogs(c)

\* Every awaited promise settles and the event loop resumes the call that
\* awaits it, whatever the other calls are doing.
SpecLive == Spec /\ \A c \in Callers : WF_vars(CallerStep(c))

\* ---------------------------------------------- requests in the middleware

InitAccess ==
    /\ table = <<>>
    /\ InitCallers
    /\ mw \in {Arrived(req) : req \in Requests}

NextAccess ==
    \/ MwSkipAuth
    \/ MwMissingJwt
    \/ MwVerifyOk
    \/ MwVerifyFail
    \/ MwBasicAuth
    \/ MwNotConfigured

\* One request through the middleware of createAccessMiddleware(options).
SpecAccess == InitAccess /\ [][NextAccess]_vars

\* ------------------------------------------------------ sequential calls

\* A call begins only when no other call is under way.
SequentialCall(c) ==
    /\ \A d \in Callers : pc[d] \in {"idle", "done", "failed"}
    /\ Call(c)

\* existingProcess.kill() resolves: the host kills the process.
KillSucceeds(c) ==
    /\ Kill(c)
    /\ calls'[c][Len(calls'[c])].ok

NextSeq ==
    \/ \E p \in 1..Len(table) : HostRun(p)
    \/ \E p \in 1..Len(table) : HostListen(p)
    \/ \E p \in 1..Len(table) : HostExit(p)
    \/ \E c \in Callers : SequentialCall(c)
    \/ \E c \in Callers : Discover(c)
    \/ \E c \in Callers : WaitExistingOk(c)
    \/ \E c \in Callers : WaitExistingFail(c)
    \/ \E c \in Callers : KillSucceeds(c)
    \/ \E c \in Callers : StartOk(c)
    \/ \E c \in Callers : StartFail(c)
    \/ \E c \in Callers : WaitNewOk(c)
    \/ \E c \in Callers : WaitNewFail(c)
    \/ \E c \in Callers : GetLogs(c)
    \/ \E c \in Callers : ReadLogOk(c)
    \/ \E c \in Callers : ReadLogFail(c)
    \/ \E c \in Callers : Settle(c)
    \/ \E c \in Callers : ReadLogGetLogs(c)
    \/ \E c \in Callers : Return(c)

\* The calls of Spec, one after the other, on a host whose kill succeeds.
SpecSeq == Init /\ [][NextSeq]_vars

\* ------------------------------------------- discovery on arbitrary lists

\* The fragments the signature and the excluded patterns are made of.
Tokens == {"clawdbot", "gateway", "devices", "--version", "start-moltbot.sh"}

Statuses == {"starting", "running", "exited", "killed"}

\* Every command of at most n fragments.
Commands(n) == UNION {[1..k -> Tokens] : k \in 1..n}

\* A second entry of the list: a gateway, or a gateway command line that
\* also holds an excluded pattern.
Followers ==
    {Proc(<<"clawdbot", "gateway">>, "running", FALSE),
     Proc(<<"clawdbot", "devices", "list", "&&", "clawdbot", "gateway">>,
          "running", FALSE)}

\* Process lists for findExistingMoltbotProcess: any command in any status,
\* alone or ahead of a follower.
DiscoverTables ==
    LET Procs == {Proc(cmd, st, FALSE) : cmd \in Commands(MaxCmdLen), st \in Statuses}
    IN {<<>>} \cup {<<p>> : p \in Procs}
              \cup {<<p, q>> : p \in Procs, q \in Followers}

InitDiscover ==
    /\ table \in DiscoverTables
    /\ InitCallers
    /\ mw = NoRequest

NextDiscover ==
    \/ \E c \in Callers : Call(c)
    \/ \E c \in Callers : Discover(c)

SpecDiscover == InitDiscover /\ [][NextDiscover]_vars

\* ------------------------------------------------ reading a call's record

Finished(c) == pc[c] \in {"done", "failed"}

\* The i-th host operation of c's call is op, issued on process id.
OpAt(c, i, op, id) ==
    /\ i \in 1..Len(calls[c])
    /\ calls[c][i].op = op
    /\ calls[c][i].id = id

\* listProcesses returned and the loop found a process: the next operation
\* of the call is the readiness wait on it.
WaitedOnExisting(c, ok) ==
    /\ existingProcess[c] # 0
    /\ OpAt(c, 2, "waitForPort", existingProcess[c])
    /\ calls[c][2].ok = ok

\* The i-th operation is the failed readiness wait on the process c started.
WaitNewFailedAt(c, i) ==
    /\ process[c] # 0
    /\ OpAt(c, i, "waitForPort", process[c])
    /\ ~calls[c][i].ok

\* The i-th operation is a startProcess of command.
StartAt(c, i, command) ==
    /\ i \in 1..Len(calls[c])
    /\ calls[c][i].op = "startProcess"
    /\ calls[c][i].command = command

Ops(c, op) == {i \in 1..Len(calls[c]) : calls[c][i].op = op}

\* The processes of the table discovery can return.
LiveServices == {p \in 1..Len(table) : Matches(table[p])}

\* ------------------------------------------------------------------ claims

\* C1: two calls that both discovered the same process and whose readiness
\* wait on it succeeded both return that process, and neither has invoked
\* startProcess or kill; and a listing that holds exactly one service
\* process, in status 'starting', makes discovery return that process.
C1_ReusedBoth ==
    \A a \in Callers, b \in Callers :
        (/\ a # b
         /\ WaitedOnExisting(a, TRUE) /\ WaitedOnExisting(b, TRUE)
         /\ existingProcess[a] = existingProcess[b])
        => /\ pc[a] = "done" /\ pc[b] = "done"
           /\ outcome[a].returned = existingProcess[a]
           /\ outcome[b].returned = outcome[a].returned
           /\ Ops(a, "startProcess") \cup Ops(b, "startProcess") = {}
           /\ Ops(a, "kill") \cup Ops(b, "kill") = {}

C1_DiscoverStep ==
    \A c \in Callers : \A p \in 1..Len(table) :
        (/\ pc[c] = "discover" /\ pc'[c] # "discover"
         /\ calls'[c][1].ok
         /\ LiveServices = {p}
         /\ table[p].status = "starting")
        => existingProcess'[c] = p /\ pc'[c] = "waitExisting"

C1_SameProcess == []C1_ReusedBoth /\ [][C1_DiscoverStep]_vars

C1_Witness ==
    \E a \in Callers, b \in Callers :
        /\ a # b
        /\ pc[a] = "done" /\ pc[b] = "done"
        /\ WaitedOnExisting(a, TRUE) /\ WaitedOnExisting(b, TRUE)
        /\ outcome[a].returned = outcome[b].returned
        /\ outcome[a].returned # 0

\* C2: concurrent callers converge on one process: no caller kills a process
\* that another caller started and is still waiting on for readiness, and
\* all callers that have returned a process returned the same one.
C2_Converge ==
    \A a \in Callers, b \in Callers :
        a # b =>
            /\ ~(/\ pc[a] = "waitNew"
                 /\ Len(calls[b]) > 0
                 /\ calls[b][Len(calls[b])].op = "kill"
                 /\ calls[b][Len(calls[b])].id = process[a])
            /\ (pc[a] = "done" /\ pc[b] = "done")
                    => outcome[a].returned = outcome[b].returned

\* C3: at most one process that matches the service signature (and no
\* excluded pattern) has status 'starting' or 'running'.
C3_AtMostOneLive == Cardinality(LiveServices) <= 1

\* C4: findExistingMoltbotProcess never returns a process whose command
\* holds an excluded pattern, whatever else the command holds.
C4_NeverCli ==
    \A c \in Callers :
        existingProcess[c] # 0 => ~IsCliCommand(table[existingProcess[c]].command)

\* A listing held a live process whose command holds both the signature and
\* an excluded pattern, and discovery went past it.
C4_Witness ==
    \E c \in Callers :
        /\ Len(calls[c]) = 1 /\ calls[c][1].ok
        /\ Len(table) = 2
        /\ IsGatewayProcess(table[1].command) /\ IsCliCommand(table[1].command)
        /\ IsLiveStatus(table[1].status)
        /\ existingProcess[c] = 2

\* C5: in a call whose readiness wait on the discovered process failed,
\* nothing but the wait has followed discovery while the kill is pending,
\* and once it is past, the call's one kill is its third operation, it
\* targets the discovered process, and every startProcess comes after it.
C5_OneKillBeforeStart ==
    \A c \in Callers :
        WaitedOnExisting(c, FALSE) =>
            IF pc[c] = "kill"
            THEN Len(calls[c]) = 2
            ELSE /\ Ops(c, "kill") = {3}
                 /\ calls[c][3].id = existingProcess[c]
                 /\ \A i \in Ops(c, "startProcess") : i > 3

\* The discovered process failed readiness, was killed, and the service was
\* started anew.
C5_Witness ==
    \E c \in Callers :
        /\ WaitedOnExisting(c, FALSE)
        /\ OpAt(c, 3, "kill", existingProcess[c])
        /\ StartAt(c, 4, LaunchCommand) /\ calls[c][4].ok

\* C6: once startProcess of the service has failed, the call has failed
\* with the error startProcess raised, and that startProcess is the call's
\* last host operation: no getLogs, log-dump process, delay or wait follows.
C6_StartErrorVerbatim ==
    \A c \in Callers : \A i \in 1..Len(calls[c]) :
        (StartAt(c, i, LaunchCommand) /\ ~calls[c][i].ok)
        => /\ i = Len(calls[c])
           /\ pc[c] = "failed"
           /\ outcome[c] = [returned |-> 0, error |-> HostError("startProcess", 0)]
           /\ process[c] = 0 /\ readLog[c] = 0

C6_Witness ==
    \E c \in Callers :
        /\ pc[c] = "failed"
        /\ StartAt(c, Len(calls[c]), LaunchCommand)
        /\ ~calls[c][Len(calls[c])].ok

\* The text of the error c's call threw: the last fragment of its message.
ErrorText(c) == outcome[c].error.message[Len(outcome[c].error.message)]

\* The last operation of c's call is the read of the log-dump's output.
ReadLogOutput(c) ==
    /\ readLog[c] # 0
    /\ OpAt(c, Len(calls[c]), "getLogs", readLog[c])
    /\ calls[c][Len(calls[c])].ok

\* C7: after a failed readiness wait on the process the call started, the
\* next host operation is the startProcess of the log-dump command, and when
\* its output has been read and is not empty, the error the call throws is
\* the gateway error and holds that output: stdout, or stderr when stdout
\* is empty.
C7_FallbackLogInError ==
    \A c \in Callers : \A i \in 1..Len(calls[c]) :
        WaitNewFailedAt(c, i) =>
            /\ Len(calls[c]) > i => StartAt(c, i + 1, ReadLogCommand)
            /\ pc[c] = "readLog" \/ Len(calls[c]) > i
            /\ ReadLogOutput(c) =>
                LET out == calls[c][Len(calls[c])] IN
                /\ pc[c] = "failed"
                /\ out.stdout # "" =>
                       IsGatewayFailed(outcome[c].error) /\ ErrorText(c) = out.stdout
                /\ (out.stdout = "" /\ out.stderr # "") =>
                       IsGatewayFailed(outcome[c].error) /\ ErrorText(c) = out.stderr

C7_Witness ==
    \E c \in Callers : \E i \in 1..Len(calls[c]) :
        /\ WaitNewFailedAt(c, i)
        /\ ReadLogOutput(c)
        /\ calls[c][Len(calls[c])].stdout = ""
        /\ calls[c][Len(calls[c])].stderr # ""
        /\ ErrorText(c) = calls[c][Len(calls[c])].stderr

\* C8 as written: the log-dump command is started after a failed readiness
\* wait only once getLogs of the failed process has been consulted and has
\* failed or returned nothing.
C8_HostLogsFirst ==
    \A c \in Callers : \A i \in 1..Len(calls[c]) : \A j \in 1..Len(calls[c]) :
        (WaitNewFailedAt(c, i) /\ j > i /\ StartAt(c, j, ReadLogCommand))
        => \E k \in (i + 1)..(j - 1) :
              /\ OpAt(c, k, "getLogs", process[c])
              /\ \/ ~calls[c][k].ok
                 \/ calls[c][k].stdout = "" /\ calls[c][k].stderr = ""

\* C8, amended: after a failed readiness wait on the process the call
\* started, getLogs of that process is never called; the startProcess of the
\* log-dump command is the very next host operation, whatever the failed
\* process's logs hold.
C8_LogDumpFirst ==
    \A c \in Callers : \A i \in 1..Len(calls[c]) :
        WaitNewFailedAt(c, i) =>
            /\ \A k \in Ops(c, "getLogs") : calls[c][k].id # process[c]
            /\ Len(calls[c]) > i => StartAt(c, i + 1, ReadLogCommand)

C8_Witness ==
    \E c \in Callers : \E i \in 1..Len(calls[c]) :
        /\ WaitNewFailedAt(c, i)
        /\ StartAt(c, i + 1, ReadLogCommand) /\ calls[c][i + 1].ok
        /\ pc[c] = "settle"

\* The call's readiness wait on the process it started failed and no text
\* of the log-dump was recovered; emptyToo says whether an output read as
\* empty counts as nothing recovered.
NothingRecovered(c, emptyToo) ==
    /\ pc[c] = "failed"
    /\ \E i \in 1..Len(calls[c]) : WaitNewFailedAt(c, i)
    /\ LET last == calls[c][Len(calls[c])] IN
       \/ last.op = "startProcess" /\ last.command = ReadLogCommand /\ ~last.ok
       \/ last.op = "getLogs" /\ ~last.ok
       \/ /\ emptyToo
          /\ last.op = "getLogs" /\ last.ok
          /\ last.stdout = "" /\ last.stderr = ""

\* C9 as written: when no diagnostic text can be recovered (the log-dump
\* cannot be started, its getLogs fails, or its stdout and stderr are both
\* empty), the call throws the readiness error itself.
C9_OriginalErrorAlways ==
    \A c \in Callers :
        NothingRecovered(c, TRUE)
        => outcome[c].error = HostError("waitForPort", process[c])

\* C9, amended: when the log-dump cannot be started or its getLogs fails,
\* the call throws the readiness error itself; when its stdout and stderr
\* are both empty, the call throws the gateway error with the text
\* '(no log output)'.
C9_OriginalErrorUnlessRead ==
    \A c \in Callers :
        /\ NothingRecovered(c, FALSE)
               => outcome[c].error = HostError("waitForPort", process[c])
        /\ (NothingRecovered(c, TRUE) /\ ~NothingRecovered(c, FALSE))
               => outcome[c].error = GatewayFailedError("(no log output)")

\* The log-dump was started and its getLogs failed.
C9_Witness ==
    \E c \in Callers :
        /\ NothingRecovered(c, FALSE)
        /\ readLog[c] # 0
        /\ OpAt(c, Len(calls[c]), "getLogs", readLog[c])
        /\ outcome[c].error = HostError("waitForPort", process[c])

\* C10: a call whose readiness wait on the discovered process succeeded is
\* over after those two operations and has returned that process, with no
\* kill and no startProcess; and neither of its two steps changes the
\* process table.
C10_Reused ==
    \A c \in Callers :
        WaitedOnExisting(c, TRUE) =>
            /\ pc[c] = "done"
            /\ outcome[c] = [returned |-> existingProcess[c], error |-> NoError]
            /\ Len(calls[c]) = 2
            /\ Ops(c, "kill") \cup Ops(c, "startProcess") = {}

C10_TableUntouched ==
    \A c \in Callers :
        (/\ pc[c] \in {"discover", "waitExisting"}
         /\ pc'[c] \in {"waitExisting", "done"}
         /\ pc'[c] # pc[c])
        => table' = table

C10_ReusedUnchanged == []C10_Reused /\ [][C10_TableUntouched]_vars

C10_Witness ==
    \E c \in Callers :
        /\ pc[c] = "done"
        /\ WaitedOnExisting(c, TRUE)
        /\ outcome[c].returned = existingProcess[c]
        /\ table[existingProcess[c]].status = "running"

\* Discovery returned null from a listing that succeeded: the host held no
\* live service process when c's call listed it.
FoundNone(c) ==
    /\ Len(calls[c]) >= 1
    /\ calls[c][1].ok
    /\ existingProcess[c] = 0

\* The i-th operation is the readiness wait on the process c started, and
\* it succeeded.
WaitNewSucceededAt(c, i) ==
    /\ process[c] # 0
    /\ OpAt(c, i, "waitForPort", process[c])
    /\ calls[c][i].ok

\* C11: when the host has no matching live process, the call starts the
\* launch command exactly once as its next operation, waits for readiness
\* on the process that returned, never kills, and once that wait has
\* succeeded the call does not fail: it ends returning that process.
C11_StartedOnce ==
    \A c \in Callers :
        FoundNone(c) =>
            /\ Len(calls[c]) >= 2 => StartAt(c, 2, LaunchCommand)
            /\ Cardinality({i \in Ops(c, "startProcess") :
                               calls[c][i].command = LaunchCommand}) <= 1
            /\ Ops(c, "kill") = {}
            /\ (Len(calls[c]) >= 3 /\ calls[c][2].ok)
                   => OpAt(c, 3, "waitForPort", process[c])
            /\ WaitNewSucceededAt(c, 3) =>
                   /\ pc[c] \in {"getLogs", "done"}
                   /\ pc[c] = "done" => outcome[c].returned = process[c]

\* C12: once the readiness wait on the process the call started has
\* succeeded, the call does not fail and does not enter the diagnostic
\* path: it ends returning that process.
C12_ReadyMeansReturned ==
    \A c \in Callers : \A i \in 1..Len(calls[c]) :
        WaitNewSucceededAt(c, i) =>
            /\ pc[c] \in {"getLogs", "done"}
            /\ outcome[c].error = NoError
            /\ pc[c] = "done" => outcome[c].returned = process[c]

\* C13: a call whose listProcesses threw has null for the discovered
\* process and goes on to startProcess of the launch command as its next
\* operation; it never waits on a process other than the one it started,
\* never kills, and never throws the listing error.
C13_ListFailureIsAbsence ==
    \A c \in Callers :
        (Len(calls[c]) >= 1 /\ ~calls[c][1].ok) =>
            /\ existingProcess[c] = 0
            /\ Len(calls[c]) = 1 => pc[c] = "start"
            /\ Len(calls[c]) >= 2 => StartAt(c, 2, LaunchCommand)
            /\ \A i \in Ops(c, "waitForPort") :
                   i > 2 /\ calls[c][i].id = process[c]
            /\ Ops(c, "kill") = {}
            /\ outcome[c].error.name # "listProcesses"

\* The listing failed while the host held a live service process, and the
\* call went on to start another.
C13_Witness ==
    \E c \in Callers :
        /\ Len(calls[c]) >= 2 /\ ~calls[c][1].ok
        /\ StartAt(c, 2, LaunchCommand) /\ calls[c][2].ok
        /\ Matches(table[1])

\* The kill of the discovered process, c's third operation, threw.
KillFailed(c) ==
    /\ existingProcess[c] # 0
    /\ OpAt(c, 3, "kill", existingProcess[c])
    /\ ~calls[c][3].ok

LaunchStarts(c) ==
    {i \in Ops(c, "startProcess") : calls[c][i].command = LaunchCommand}

\* C15: a call starts the launch command at most once, and after the
\* readiness wait on the process it started has failed it is on the way to
\* an error: no startProcess of the launch command and no readiness wait
\* follows, and the call returns no process.
C15_NoRetry ==
    \A c \in Callers :
        /\ Cardinality(LaunchStarts(c)) <= 1
        /\ \A i \in 1..Len(calls[c]) :
            WaitNewFailedAt(c, i) =>
                /\ \A j \in LaunchStarts(c) \cup Ops(c, "waitForPort") : j <= i
                /\ pc[c] \in {"readLog", "settle", "readLogs", "failed"}
                /\ outcome[c].returned = 0

\* The readiness wait on the started process failed and the call has ended
\* with an error.
C15_Witness ==
    \E c \in Callers : \E i \in 1..Len(calls[c]) :
        /\ WaitNewFailedAt(c, i)
        /\ pc[c] = "failed"
        /\ outcome[c].error # NoError

\* C16: a finished call has either returned a process or thrown an error,
\* never both and never neither; a call under way has done neither; and a
\* returned process is one on which a readiness wait of this same call
\* succeeded.
C16_ReadyHandleOrError ==
    \A c \in Callers :
        /\ pc[c] = "done" =>
            /\ outcome[c].returned # 0
            /\ outcome[c].error = NoError
            /\ \E i \in Ops(c, "waitForPort") :
                   calls[c][i].id = outcome[c].returned /\ calls[c][i].ok
        /\ pc[c] = "failed" =>
            /\ outcome[c].returned = 0
            /\ outcome[c].error # NoError
        /\ ~Finished(c) => outcome[c] = NoOutcome

\* One call has returned the process it started and another has thrown.
C16_Witness ==
    \E a \in Callers, b \in Callers :
        /\ pc[a] = "done" /\ outcome[a].returned = process[a] /\ process[a] # 0
        /\ pc[b] = "failed" /\ outcome[b].error # NoError

\* C17: every kill of a call is its third operation, on the process
\* discovery returned, right after the failed readiness wait on it, and
\* never on a process the call started; and a step of a call changes a
\* process already in the table only by that kill.
C17_KillsOnlyStale ==
    \A c \in Callers : \A i \in Ops(c, "kill") :
        /\ i = 3
        /\ WaitedOnExisting(c, FALSE)
        /\ calls[c][i].id = existingProcess[c]
        /\ calls[c][i].id # process[c]
        /\ calls[c][i].id # readLog[c]

C17_OnlyKillStep ==
    \A c \in Callers :
        (calls'[c] # calls[c] /\ calls'[c] # <<>>) =>
            \A p \in 1..Len(table) :
                table'[p] # table[p] =>
                    LET last == calls'[c][Len(calls'[c])] IN
                    /\ last.op = "kill" /\ last.id = p /\ last.ok
                    /\ p = existingProcess[c]
                    /\ table'[p].status = "killed"

C17_OnlyKill == []C17_KillsOnlyStale /\ [][C17_OnlyKillStep]_vars

\* The call killed the stale process, started its own, and its readiness
\* wait on that one failed: the started process is still as the host has it.
C17_Witness ==
    \E c \in Callers : \E i \in 1..Len(calls[c]) :
        /\ Ops(c, "kill") = {3} /\ calls[c][3].ok
        /\ WaitNewFailedAt(c, i)
        /\ pc[c] = "failed"
        /\ IsLiveStatus(table[process[c]].status)

\* No call of c is under way: c is idle or its call has returned or thrown.
AtRest(c) == pc[c] \in {"idle", "done", "failed"}

\* C18: every call eventually returns or throws, in every interleaving
\* with the other calls and the host: no caller stays for ever inside a
\* call, so each is at rest again and again.
C18_Terminates ==
    \A c \in Callers : []<>AtRest(c)

\* A call has returned the process another call started and is still
\* waiting on.
C18_Witness ==
    \E a \in Callers, b \in Callers :
        /\ a # b
        /\ pc[a] = "waitNew"
        /\ pc[b] = "done"
        /\ outcome[b].returned = process[a]

\* C19: with calls that do not overlap and a kill that succeeds, the table
\* holds at most one live service process whenever no call is under way.
C19_OneLiveAfterCalls ==
    (\A c \in Callers : AtRest(c)) => Cardinality(LiveServices) <= 1

\* C20: the middleware calls next() only in dev or E2E test mode, or with
\* Cloudflare Access configured and the token verified, or with Cloudflare
\* Access not fully configured, basic auth configured and the credentials
\* accepted; with Cloudflare Access configured a missing or rejected token
\* ends in 401 or a redirect without basic auth being tried; and with
\* nothing configured the answer is 500.
C20_NextOnlyWhenAuthorised ==
    mw.pc = "done" =>
        LET env == mw.req.env
            skip == env.DEV_MODE = "true" \/ env.E2E_TEST_MODE = "true"
            access == /\ env.CF_ACCESS_TEAM_DOMAIN \notin {Undefined, ""}
                      /\ env.CF_ACCESS_AUD \notin {Undefined, ""}
            basic == /\ env.BASIC_AUTH_USER \notin {Undefined, ""}
                     /\ env.BASIC_AUTH_PASS \notin {Undefined, ""}
        IN
        /\ mw.next =>
            \/ skip
            \/ access /\ mw.verify = "ok"
            \/ ~access /\ basic /\ mw.basic = "accepted"
        /\ mw.next <=> mw.status = 0
        /\ (~skip /\ access /\ mw.verify # "ok") =>
            /\ ~mw.next
            /\ mw.status \in {401, 302}
            /\ mw.basic = "notcalled"
        /\ (~skip /\ ~access /\ ~basic) => ~mw.next /\ mw.status = 500

\* Cloudflare Access and basic auth are both configured, the token was
\* rejected and the answer is 401.
C20_Witness ==
    /\ mw.pc = "done"
    /\ AccessConfigured(mw.req.env) /\ BasicConfigured(mw.req.env)
    /\ mw.verify = "failed"
    /\ mw.status = 401 /\ ~mw.next

====
